---- MODULE Spec2Model ----
(***************************************************************************)
(* Model of the PyBank and PyPoll report scripts (src/PyBank/main.py and   *)
(* src/PyPoll/main.py).  Each script is a pipeline of four stages run by   *)
(* main(): import the csv rows, analyze them, format the analysis into a   *)
(* report, export the report to a file and print it.                       *)
(*                                                                         *)
(* Strings are sequences of one-character strings, so that lengths, joins  *)
(* and overwrites at a file offset are computed and not assumed.  The      *)
(* characters are ASCII: the digits and the white space of other scripts,  *)
(* which Decimal() also reads and strips, are outside the model's          *)
(* alphabet.  The control characters of white space that have no escape   *)
(* in a string are written as they are.                                    *)
(*                                                                         *)
(* A Decimal is a sign, a coefficient (the sequence of its decimal digits, *)
(* of any length) and an exponent, or an infinity or a NaN; its operations *)
(* are those of the decimal module under the default context: 28           *)
(* significant digits, ROUND_HALF_EVEN, exponents within -999999..999999,  *)
(* InvalidOperation, DivisionByZero and Overflow raised as exceptions.     *)
(* Exponents are integers of the checker, so that an exponent written with *)
(* ten digits or more in an amount field is outside the model.             *)
(***************************************************************************)
EXTENDS Integers, Sequences, FiniteSets

\* ------------------------------------------------------------------ bounds
MaxRows == 3        \* data rows of a budget csv file
MaxBallots == 4     \* data rows of an election csv file
RaceMaxRows == 2    \* data rows of each csv file when two instances run

\* --------------------------------------------------------------- constants
\* decimal.getcontext(): prec, Emax and Emin of the default context
DecimalPrec == 28
Emax == 999999
Emin == -999999
success == 0
failure == -1
\* the text layer of a stream hands its pending text on once it holds this
\* many characters; the binary layer under it keeps what fits its buffer,
\* whose size is the block size of the device
ChunkSize == 8192
BufferSize == 4096
\* exit status of the interpreter when the flush of sys.stdout at exit fails
FlushFailureStatus == 120

\* ------------------------------------------------------------ text helpers
Digits == <<"0", "1", "2", "3", "4", "5", "6", "7", "8", "9">>

DigitChars == {Digits[i] : i \in 1..10}

DigitValue(c) == CHOOSE d \in 0..9 : Digits[d + 1] = c

RECURSIVE NatToStr(_)
\* str() of a non-negative int
NatToStr(n) ==
    IF n < 10 THEN <<Digits[n + 1]>>
    ELSE NatToStr(n \div 10) \o <<Digits[(n % 10) + 1]>>

RECURSIVE DigitsToNat(_)
\* int() of a text of digits
DigitsToNat(s) ==
    IF s = <<>> THEN 0
    ELSE 10 * DigitsToNat(SubSeq(s, 1, Len(s) - 1)) + DigitValue(s[Len(s)])

Repeat(c, n) == [i \in 1..n |-> c]

RECURSIVE Join(_, _)
\* sep.join(lines)
Join(sep, lines) ==
    IF lines = <<>> THEN <<>>
    ELSE IF Len(lines) = 1 THEN lines[1]
    ELSE lines[1] \o sep \o Join(sep, Tail(lines))

NewLine == <<"\n">>

Abs(n) == IF n < 0 THEN 0 - n ELSE n

Larger(m, n) == IF m < n THEN n ELSE m

Smaller(m, n) == IF m < n THEN m ELSE n

\* ------------------------------------------------------------ option values
None == <<>>
Some(x) == <<x>>

\* --------------------------------------------------------------- exceptions
\* An exception is its class and, for the exceptions of the decimal module,
\* the signal its arguments name.
Error(class, signal) == [class |-> class, signal |-> signal]

NoError == Error("none", "none")

\* ------------------------------------------------------------- coefficients
\* The coefficient of a Decimal: the digits of a natural number of any size,
\* most significant first, without leading zeros (<<0>> for zero).
Zeros(n) == [i \in 1..n |-> 0]

IsZeros(ds) == \A i \in 1..Len(ds) : ds[i] = 0

\* text.lstrip("0")
StripZeros(ds) ==
    LET nz == {i \in 1..Len(ds) : ds[i] # 0}
    IN  IF nz = {} THEN <<>>
        ELSE SubSeq(ds, CHOOSE i \in nz : \A j \in nz : i <= j, Len(ds))

\* str(int(text))
Canon(ds) == IF IsZeros(ds) THEN <<0>> ELSE StripZeros(ds)

\* str(n) of a non-negative int, as digits
NatDigits(n) == [i \in 1..Len(NatToStr(n)) |-> DigitValue(NatToStr(n)[i])]

Pad(ds, n) == Zeros(n - Len(ds)) \o ds

\* the carry into column i of the column sums cols: a column to its right
\* produces one and every column in between passes it on
CarryInto(cols, i) ==
    IF \E j \in (i + 1)..Len(cols) :
           cols[j] >= 10 /\ \A k \in (i + 1)..(j - 1) : cols[k] = 9
    THEN 1 ELSE 0

\* a + b, digit by digit, for a and b of the same length
AddAligned(a, b) ==
    LET cols == [i \in 1..Len(a) |-> a[i] + b[i]]
    IN  (IF CarryInto(cols, 0) = 1 THEN <<1>> ELSE <<>>)
        \o [i \in 1..Len(a) |-> (cols[i] + CarryInto(cols, i)) % 10]

\* a + b
AddCoeff(a, b) ==
    LET n == Larger(Len(a), Len(b))
    IN  Canon(AddAligned(Pad(a, n), Pad(b, n)))

\* the borrow from column i of the column differences cols
BorrowFrom(cols, i) ==
    IF \E j \in (i + 1)..Len(cols) :
           cols[j] < 0 /\ \A k \in (i + 1)..(j - 1) : cols[k] = 0
    THEN 1 ELSE 0

\* a - b, digit by digit, for a and b of the same length and a >= b
SubAligned(a, b) ==
    LET cols == [i \in 1..Len(a) |-> a[i] - b[i]]
    IN  [i \in 1..Len(a) |-> (cols[i] - BorrowFrom(cols, i) + 10) % 10]

\* a - b, for a >= b
SubCoeff(a, b) ==
    LET n == Larger(Len(a), Len(b))
    IN  Canon(SubAligned(Pad(a, n), Pad(b, n)))

\* -1, 0 or 1 as a < b, a = b or a > b
CmpCoeff(a, b) ==
    IF Len(a) # Len(b) THEN IF Len(a) < Len(b) THEN -1 ELSE 1
    ELSE IF a = b THEN 0
    ELSE LET i == CHOOSE k \in 1..Len(a) :
                      a[k] # b[k] /\ \A j \in 1..(k - 1) : a[j] = b[j]
         IN  IF a[i] < b[i] THEN -1 ELSE 1

RECURSIVE DivAligned(_, _, _), DivSecondHalf(_, _, _)
\* long division of the digits ds by n, rem being the remainder carried in:
\* the quotient digits and the remainder left; the digits are divided half
\* by half
DivAligned(ds, n, rem) ==
    IF Len(ds) = 0 THEN [quot |-> <<>>, rem |-> rem]
    ELSE IF Len(ds) = 1
    THEN [quot |-> <<(rem * 10 + ds[1]) \div n>>,
          rem |-> (rem * 10 + ds[1]) % n]
    ELSE DivSecondHalf(DivAligned(SubSeq(ds, 1, Len(ds) \div 2), n, rem),
                       SubSeq(ds, Len(ds) \div 2 + 1, Len(ds)), n)

\* the division of the second half of the digits, after that of the first
DivSecondHalf(first, ds, n) ==
    LET second == DivAligned(ds, n, first.rem)
    IN  [quot |-> first.quot \o second.quot, rem |-> second.rem]

\* divmod(a, n) for an int n > 0
DivCoeff(a, n) ==
    LET d == DivAligned(a, n, 0)
    IN  [quot |-> Canon(d.quot), rem |-> d.rem]

\* ------------------------------------------------------------------ Decimal
\* A Decimal: sign 0 or 1, coefficient int, exponent exp; special is "" for
\* a number, "F" for an infinity, "n" for a NaN and "N" for a signaling NaN
\* (then int is the payload of the NaN, <<>> when it has none).
DecFromTriple(sign, coefficient, exponent) ==
    [sign |-> sign, int |-> coefficient, exp |-> exponent, special |-> ""]

SignedInfinity(sign) ==
    [sign |-> sign, int |-> <<0>>, exp |-> 0, special |-> "F"]

NaNValue(sign, payload, special) ==
    [sign |-> sign, int |-> payload, exp |-> 0, special |-> special]

IsFinite(d) == d.special = ""

IsNaN(d) == d.special \in {"n", "N"}

IsInfinite(d) == d.special = "F"

\* "not d": a zero of either sign and of any exponent
IsZero(d) == d.special = "" /\ d.int = <<0>>

\* d.adjusted(): the exponent of the most significant digit
Adjusted(d) == d.exp + Len(d.int) - 1

CopyNegate(d) == [d EXCEPT !.sign = 1 - d.sign]

\* Decimal(n) of an int
DecimalFromInt(n) ==
    DecFromTriple(IF n < 0 THEN 1 ELSE 0, NatDigits(Abs(n)), 0)

\* the outcome of an operation: the value it returns or the exception it raises
Returned(v) == [ok |-> TRUE, error |-> NoError, value |-> v]

Raised(class, signal) ==
    [ok |-> FALSE, error |-> Error(class, signal),
     value |-> DecFromTriple(0, <<0>>, 0)]

\* ------------------------------------------------------- Decimal(text)
\* the ASCII characters str.strip() removes: space, \t, \n, \r, \f, the
\* vertical tab chr(11) and the separators chr(28), chr(29), chr(30), chr(31)
Whitespace ==
    {" ", "\t", "\n", "\r", "\f", "", "", "", "", ""}

\* text.strip()
Strip(s) ==
    LET keep == {i \in 1..Len(s) : s[i] \notin Whitespace}
    IN  IF keep = {} THEN <<>>
        ELSE SubSeq(s, CHOOSE i \in keep : \A j \in keep : i <= j,
                       CHOOSE i \in keep : \A j \in keep : j <= i)

\* text.replace("_", "")
RemoveUnderscores(s) == SelectSeq(s, LAMBDA c : c # "_")

UpperCase == <<"A", "E", "F", "I", "N", "S", "T", "Y">>
LowerCase == <<"a", "e", "f", "i", "n", "s", "t", "y">>

\* the letters of a Decimal literal match in either case
Lower(s) ==
    [i \in 1..Len(s) |->
        IF \E k \in 1..Len(UpperCase) : UpperCase[k] = s[i]
        THEN LowerCase[CHOOSE k \in 1..Len(UpperCase) : UpperCase[k] = s[i]]
        ELSE s[i]]

\* the length of the longest prefix of s made of digits
LeadingDigits(s) ==
    CHOOSE k \in 0..Len(s) :
        /\ \A i \in 1..k : s[i] \in DigitChars
        /\ k = Len(s) \/ s[k + 1] \notin DigitChars

Drop(s, k) == SubSeq(s, k + 1, Len(s))

CharsToDigits(s) == [i \in 1..Len(s) |-> DigitValue(s[i])]

\* A numeric literal is an optional sign, digits with an optional fraction and
\* an optional exponent; the parts are read from left to right.  The value is
\* exact, whatever its number of digits.
ParseNumber(sign, intpart, fracpart, exp) ==
    Returned(DecFromTriple(sign, Canon(CharsToDigits(intpart \o fracpart)),
                           exp - Len(fracpart)))

\* the digits of an exponent, after its optional sign
ParseExpDigits(sign, intpart, fracpart, negative, digits) ==
    IF digits = <<>> \/ LeadingDigits(digits) # Len(digits)
    THEN Raised("InvalidOperation", "ConversionSyntax")
    ELSE ParseNumber(sign, intpart, fracpart,
                     IF negative THEN 0 - DigitsToNat(digits)
                     ELSE DigitsToNat(digits))

\* what follows the digits: nothing, or "e" and an exponent
ParseExp(sign, intpart, fracpart, rest) ==
    IF Len(intpart) + Len(fracpart) = 0
    THEN Raised("InvalidOperation", "ConversionSyntax")
    ELSE IF rest = <<>> THEN ParseNumber(sign, intpart, fracpart, 0)
    ELSE IF rest[1] # "e" THEN Raised("InvalidOperation", "ConversionSyntax")
    ELSE IF Len(rest) > 1 /\ rest[2] \in {"-", "+"}
    THEN ParseExpDigits(sign, intpart, fracpart, rest[2] = "-", Drop(rest, 2))
    ELSE ParseExpDigits(sign, intpart, fracpart, FALSE, Drop(rest, 1))

\* what follows the integer part: an optional "." and the fraction digits
ParseFrac(sign, intpart, rest) ==
    IF rest # <<>> /\ rest[1] = "."
    THEN ParseExp(sign, intpart,
                  SubSeq(rest, 2, LeadingDigits(Tail(rest)) + 1),
                  Drop(rest, LeadingDigits(Tail(rest)) + 1))
    ELSE ParseExp(sign, intpart, <<>>, rest)

\* NaN or sNaN with an optional payload of digits
ParseNaN(sign, signal, nan) ==
    IF /\ Len(nan) >= 3
       /\ SubSeq(nan, 1, 3) = <<"n", "a", "n">>
       /\ LeadingDigits(Drop(nan, 3)) = Len(nan) - 3
    THEN Returned(NaNValue(sign, StripZeros(CharsToDigits(Drop(nan, 3))),
                           signal))
    ELSE Raised("InvalidOperation", "ConversionSyntax")

\* the literal after its sign, letters in lower case
ParseBody(sign, body) ==
    IF body \in {<<"i", "n", "f">>, <<"i", "n", "f", "i", "n", "i", "t", "y">>}
    THEN Returned(SignedInfinity(sign))
    ELSE IF body # <<>> /\ body[1] = "s" THEN ParseNaN(sign, "N", Tail(body))
    ELSE IF body # <<>> /\ body[1] = "n" THEN ParseNaN(sign, "n", body)
    ELSE ParseFrac(sign, SubSeq(body, 1, LeadingDigits(body)),
                   Drop(body, LeadingDigits(body)))

\* the literal without white space around it and without underscores
ParseSign(v) ==
    IF v # <<>> /\ v[1] \in {"-", "+"}
    THEN ParseBody(IF v[1] = "-" THEN 1 ELSE 0, Lower(Tail(v)))
    ELSE ParseBody(0, Lower(v))

\* Decimal(profit) of a str: white space around the literal and underscores
\* are dropped; the literal is a number, Inf, Infinity, NaN or sNaN, in
\* either case.  Anything else raises InvalidOperation (ConversionSyntax).
ParseDecimal(text) == ParseSign(RemoveUnderscores(Strip(text)))

\* ------------------------------------------------- rounding to the context
Etiny == Emin - DecimalPrec + 1

Etop == Emax - DecimalPrec + 1

\* coefficient + 1
Increment(ds) == AddCoeff(ds, <<1>>)

\* ROUND_HALF_EVEN of the coefficient ds cut after its first prec digits:
\* 1 to round up, 0 when nothing is cut off but zeros, -1 to round down
RoundHalfEven(ds, prec) ==
    LET rest == SubSeq(ds, prec + 1, Len(ds))
        exact_half == rest[1] = 5 /\ IsZeros(Tail(rest))
    IN  IF exact_half /\ (prec = 0 \/ ds[prec] % 2 = 0) THEN -1
        ELSE IF rest[1] >= 5 THEN 1
        ELSE IF IsZeros(rest) THEN 0
        ELSE -1

\* d with exponent exp: zeros appended, or digits cut off and rounded
Rescale(d, exp) ==
    IF d.special # "" THEN d
    ELSE IF IsZero(d) THEN DecFromTriple(d.sign, <<0>>, exp)
    ELSE IF d.exp >= exp
    THEN DecFromTriple(d.sign, d.int \o Zeros(d.exp - exp), exp)
    ELSE LET short == Len(d.int) + d.exp - exp < 0
             ds == IF short THEN <<1>> ELSE d.int
             digits == IF short THEN 0 ELSE Len(d.int) + d.exp - exp
             changed == RoundHalfEven(ds, digits)
             coeff == IF digits = 0 THEN <<0>> ELSE SubSeq(ds, 1, digits)
         IN  DecFromTriple(d.sign,
                           IF changed = 1 THEN Increment(coeff) ELSE coeff,
                           exp)

\* a NaN keeps at most DecimalPrec digits of payload
FixNan(d) ==
    IF Len(d.int) > DecimalPrec
    THEN [d EXCEPT !.int = StripZeros(SubSeq(d.int,
                                             Len(d.int) - DecimalPrec + 1,
                                             Len(d.int)))]
    ELSE d

\* the result of an operation brought into the context: at most DecimalPrec
\* digits, rounded half-even; Overflow beyond Emax; exponents below Etiny
\* are clamped
Fix(d) ==
    IF IsNaN(d) THEN Returned(FixNan(d))
    ELSE IF IsInfinite(d) THEN Returned(d)
    ELSE IF IsZero(d)
    THEN Returned(DecFromTriple(d.sign, <<0>>,
                                Smaller(Larger(d.exp, Etiny), Emax)))
    ELSE IF Len(d.int) + d.exp - DecimalPrec > Etop
    THEN Raised("Overflow", "Overflow")
    ELSE LET exp_min == Larger(Len(d.int) + d.exp - DecimalPrec, Etiny)
         IN  IF d.exp >= exp_min THEN Returned(d)
             ELSE LET r == Rescale(d, exp_min)
                      carry == Len(r.int) > DecimalPrec
                      coeff == IF carry THEN SubSeq(r.int, 1, DecimalPrec)
                               ELSE r.int
                      exp == IF carry THEN exp_min + 1 ELSE exp_min
                  IN  IF exp > Etop THEN Raised("Overflow", "Overflow")
                      ELSE Returned(DecFromTriple(d.sign, coeff, exp))

\* ---------------------------------------------------------- arithmetic
\* the NaN rule of the arithmetic operations: a signaling NaN raises, a
\* quiet NaN is the result
HasNaN(a, b) == IsNaN(a) \/ IsNaN(b)

CheckNans(a, b) ==
    IF a.special = "N" \/ b.special = "N"
    THEN Raised("InvalidOperation", "InvalidOperation")
    ELSE IF IsNaN(a) THEN Returned(FixNan(a))
    ELSE Returned(FixNan(b))

\* the operand of the larger exponent gets the exponent of the other; an
\* operand too small to be seen in DecimalPrec digits is replaced by a unit
\* just below the digits that are kept
Normalize(a, b) ==
    LET swap == a.exp < b.exp
        tmp == IF swap THEN b ELSE a
        other == IF swap THEN a ELSE b
        exp == tmp.exp + Smaller(-1, Len(tmp.int) - DecimalPrec - 2)
        small == Len(other.int) + other.exp - 1 < exp
        other1 == IF small THEN [other EXCEPT !.int = <<1>>, !.exp = exp]
                  ELSE other
        tmp1 == [tmp EXCEPT !.int = tmp.int \o Zeros(tmp.exp - other1.exp),
                            !.exp = other1.exp]
    IN  IF swap THEN <<other1, tmp1>> ELSE <<tmp1, other1>>

\* a + b   (Decimal.__add__)
DecimalAdd(a, b) ==
    LET exp == Smaller(a.exp, b.exp)
    IN  IF HasNaN(a, b) THEN CheckNans(a, b)
        ELSE IF IsInfinite(a)
        THEN IF IsInfinite(b) /\ a.sign # b.sign
             THEN Raised("InvalidOperation", "InvalidOperation")
             ELSE Returned(a)
        ELSE IF IsInfinite(b) THEN Returned(b)
        ELSE IF IsZero(a) /\ IsZero(b)
        THEN Fix(DecFromTriple(Smaller(a.sign, b.sign), <<0>>, exp))
        ELSE IF IsZero(a)
        THEN Fix(Rescale(b, Larger(exp, b.exp - DecimalPrec - 1)))
        ELSE IF IsZero(b)
        THEN Fix(Rescale(a, Larger(exp, a.exp - DecimalPrec - 1)))
        ELSE LET ops == Normalize(a, b)
                 op1 == ops[1]
                 op2 == ops[2]
                 cmp == CmpCoeff(op1.int, op2.int)
             IN  IF op1.sign = op2.sign
                 THEN Fix(DecFromTriple(op1.sign, AddCoeff(op1.int, op2.int),
                                        op1.exp))
                 ELSE IF cmp = 0 THEN Fix(DecFromTriple(0, <<0>>, exp))
                 ELSE IF cmp < 0
                 THEN Fix(DecFromTriple(op2.sign, SubCoeff(op2.int, op1.int),
                                        op1.exp))
                 ELSE Fix(DecFromTriple(op1.sign, SubCoeff(op1.int, op2.int),
                                        op1.exp))

\* a - b   (Decimal.__sub__)
DecimalSub(a, b) ==
    IF HasNaN(a, b) THEN CheckNans(a, b) ELSE DecimalAdd(a, CopyNegate(b))

\* -1, 0 or 1 as a < b, a = b or a > b, for operands that are not NaNs
Cmp(a, b) ==
    LET inf(d) == IF IsInfinite(d) THEN 1 - 2 * d.sign ELSE 0
        side(d) == 1 - 2 * d.sign
    IN  IF IsInfinite(a) \/ IsInfinite(b)
        THEN IF inf(a) = inf(b) THEN 0 ELSE IF inf(a) < inf(b) THEN -1 ELSE 1
        ELSE IF IsZero(a) THEN IF IsZero(b) THEN 0 ELSE 0 - side(b)
        ELSE IF IsZero(b) THEN side(a)
        ELSE IF b.sign < a.sign THEN -1
        ELSE IF a.sign < b.sign THEN 1
        ELSE IF Adjusted(a) = Adjusted(b)
        THEN side(a) * CmpCoeff(a.int \o Zeros(a.exp - b.exp),
                                b.int \o Zeros(b.exp - a.exp))
        ELSE IF Adjusted(a) > Adjusted(b) THEN side(a)
        ELSE 0 - side(a)

\* a < b   (Decimal.__lt__): a comparison with a NaN raises; value is the
\* truth of the comparison
DecimalLess(a, b) ==
    IF HasNaN(a, b)
    THEN [ok |-> FALSE, error |-> Error("InvalidOperation", "InvalidOperation"),
          value |-> FALSE]
    ELSE [ok |-> TRUE, error |-> NoError, value |-> Cmp(a, b) < 0]

\* a > b   (Decimal.__gt__)
DecimalGreater(a, b) ==
    IF HasNaN(a, b)
    THEN [ok |-> FALSE, error |-> Error("InvalidOperation", "InvalidOperation"),
          value |-> FALSE]
    ELSE [ok |-> TRUE, error |-> NoError, value |-> Cmp(a, b) > 0]

\* an exact quotient loses its trailing zeros up to the ideal exponent
StripTrailingZeros(coeff, exp, ideal_exp) ==
    LET most == Smaller(Larger(ideal_exp - exp, 0), Len(coeff) - 1)
        n == CHOOSE k \in 0..most :
                 /\ \A i \in 1..k : coeff[Len(coeff) - i + 1] = 0
                 /\ k = most \/ coeff[Len(coeff) - k] # 0
    IN  [int |-> SubSeq(coeff, 1, Len(coeff) - n), exp |-> exp + n]

\* a / n for an int n   (Decimal.__truediv__ of a and Decimal(n))
DecimalDivide(a, n) ==
    LET b == DecimalFromInt(n)
        sign == IF a.sign = b.sign THEN 0 ELSE 1
    IN  IF IsNaN(a) THEN CheckNans(a, b)
        ELSE IF IsInfinite(a) THEN Returned(SignedInfinity(sign))
        ELSE IF IsZero(b)
        THEN IF IsZero(a) THEN Raised("InvalidOperation", "DivisionUndefined")
             ELSE Raised("DivisionByZero", "DivisionByZero")
        ELSE IF IsZero(a) THEN Fix(DecFromTriple(sign, <<0>>, a.exp - b.exp))
        ELSE LET shift == Len(b.int) - Len(a.int) + DecimalPrec + 1
                 exp == a.exp - b.exp - shift
                 cut == IF shift < 0 THEN 0 - shift ELSE 0
                 kept == IF shift >= 0 THEN a.int \o Zeros(shift)
                         ELSE SubSeq(a.int, 1, Len(a.int) - cut)
                 lost == SubSeq(a.int, Len(a.int) - cut + 1, Len(a.int))
                 q == DivCoeff(kept, Abs(n))
                 remainder == q.rem # 0 \/ ~IsZeros(lost)
                 last == q.quot[Len(q.quot)]
                 exact == StripTrailingZeros(q.quot, exp, a.exp - b.exp)
             IN  IF remainder
                 THEN Fix(DecFromTriple(sign,
                                        IF last % 5 = 0 THEN Increment(q.quot)
                                        ELSE q.quot,
                                        exp))
                 ELSE Fix(DecFromTriple(sign, exact.int, exact.exp))

\* round(d, ndigits)   (Decimal.quantize to the exponent -ndigits)
DecimalRound(d, ndigits) ==
    LET exp == 0 - ndigits
        ans == Rescale(d, exp)
    IN  IF IsNaN(d) THEN CheckNans(d, DecimalFromInt(1))
        ELSE IF IsInfinite(d)
        THEN Raised("InvalidOperation", "InvalidOperation")
        ELSE IF ~(Etiny <= exp /\ exp <= Emax)
        THEN Raised("InvalidOperation", "InvalidOperation")
        ELSE IF IsZero(d) THEN Fix(DecFromTriple(d.sign, <<0>>, exp))
        ELSE IF Adjusted(d) > Emax
        THEN Raised("InvalidOperation", "InvalidOperation")
        ELSE IF Adjusted(d) - exp + 1 > DecimalPrec
        THEN Raised("InvalidOperation", "InvalidOperation")
        ELSE IF Adjusted(ans) > Emax
        THEN Raised("InvalidOperation", "InvalidOperation")
        ELSE IF Len(ans.int) > DecimalPrec
        THEN Raised("InvalidOperation", "InvalidOperation")
        ELSE Fix(ans)

\* --------------------------------------------------------------- str(d)
DigitsToChars(ds) == [i \in 1..Len(ds) |-> Digits[ds[i] + 1]]

\* "%+d" % n
SignedIntToStr(n) ==
    IF n < 0 THEN <<"-">> \o NatToStr(0 - n) ELSE <<"+">> \o NatToStr(n)

\* str(d) and f"{d}": scientific notation when the exponent is positive or
\* the number has more than six zeros after the point
DecimalStr(d) ==
    LET sign == IF d.sign = 1 THEN <<"-">> ELSE <<>>
        text == DigitsToChars(d.int)
        leftdigits == d.exp + Len(d.int)
        dotplace == IF d.exp <= 0 /\ leftdigits > -6 THEN leftdigits ELSE 1
        intpart == IF dotplace <= 0 THEN <<"0">>
                   ELSE IF dotplace >= Len(text)
                   THEN text \o Repeat("0", dotplace - Len(text))
                   ELSE SubSeq(text, 1, dotplace)
        fracpart == IF dotplace <= 0
                    THEN <<".">> \o Repeat("0", 0 - dotplace) \o text
                    ELSE IF dotplace >= Len(text) THEN <<>>
                    ELSE <<".">> \o SubSeq(text, dotplace + 1, Len(text))
        exp == IF leftdigits = dotplace THEN <<>>
               ELSE <<"E">> \o SignedIntToStr(leftdigits - dotplace)
    IN  IF d.special = "F"
        THEN sign \o <<"I", "n", "f", "i", "n", "i", "t", "y">>
        ELSE IF d.special = "n" THEN sign \o <<"N", "a", "N">> \o text
        ELSE IF d.special = "N" THEN sign \o <<"s", "N", "a", "N">> \o text
        ELSE sign \o intpart \o fracpart \o exp

\* ================================================================== PyBank
\* total_changes = total_months - 1
TotalChanges(total_months) == total_months - 1

\* total_profit += profit
AccumulateProfit(total_profit, profit) == DecimalAdd(total_profit, profit)

\* if greatest_increase is None or greatest_increase[1] < change: ...
UpdateGreatestIncrease(greatest_increase, month, change) ==
    IF greatest_increase = None THEN Returned(Some(<<month, change>>))
    ELSE LET less == DecimalLess(greatest_increase[1][2], change)
         IN  IF ~less.ok
             THEN [ok |-> FALSE, error |-> less.error, value |-> None]
             ELSE Returned(IF less.value THEN Some(<<month, change>>)
                           ELSE greatest_increase)

\* if greatest_decrease is None or greatest_decrease[1] > change: ...
UpdateGreatestDecrease(greatest_decrease, month, change) ==
    IF greatest_decrease = None THEN Returned(Some(<<month, change>>))
    ELSE LET greater == DecimalGreater(greatest_decrease[1][2], change)
         IN  IF ~greater.ok
             THEN [ok |-> FALSE, error |-> greater.error, value |-> None]
             ELSE Returned(IF greater.value THEN Some(<<month, change>>)
                           ELSE greatest_decrease)

\* Decimal("0.00")
ZeroCents == DecFromTriple(0, <<0>>, -2)

\* the locals of analyze_budget_data before the loop
BudgetLoopInit ==
    [total_profit |-> ZeroCents, total_change |-> ZeroCents,
     last_profit |-> None, change |-> None,
     greatest_increase |-> None, greatest_decrease |-> None,
     month |-> <<>>, profit |-> None, error |-> NoError]

\* The statements of the loop body act on the locals; the first one that
\* raises records the exception, and the statements after it do nothing.
\* name = <value of r>
Assign(st, name, r) ==
    IF r.ok THEN [st EXCEPT ![name] = r.value]
    ELSE [st EXCEPT !.error = r.error]

\* for month, profit in budget_data: profit = Decimal(profit)
ConvertProfit(st, row) ==
    IF Len(row) # 2 THEN [st EXCEPT !.error = Error("ValueError", "none")]
    ELSE Assign([st EXCEPT !.month = row[1]], "profit", ParseDecimal(row[2]))

\* total_profit += profit
AddProfit(st) ==
    IF st.error # NoError THEN st
    ELSE Assign(st, "total_profit",
                AccumulateProfit(st.total_profit, st.profit))

\* change = <value of r>
AssignChange(st, r) ==
    IF r.ok THEN [st EXCEPT !.change = Some(r.value)]
    ELSE [st EXCEPT !.error = r.error]

\* if last_profit is not None: change = profit - last_profit
ComputeChange(st) ==
    IF st.error # NoError \/ st.last_profit = None THEN st
    ELSE AssignChange(st, DecimalSub(st.profit, st.last_profit[1]))

\* if last_profit is not None: total_change += change
AddChange(st) ==
    IF st.error # NoError \/ st.last_profit = None THEN st
    ELSE Assign(st, "total_change",
                DecimalAdd(st.total_change, st.change[1]))

\* if change is not None: the comparison with greatest_increase
CompareIncrease(st) ==
    IF st.error # NoError \/ st.change = None THEN st
    ELSE Assign(st, "greatest_increase",
                UpdateGreatestIncrease(st.greatest_increase, st.month,
                                       st.change[1]))

\* if change is not None: the comparison with greatest_decrease
CompareDecrease(st) ==
    IF st.error # NoError \/ st.change = None THEN st
    ELSE Assign(st, "greatest_decrease",
                UpdateGreatestDecrease(st.greatest_decrease, st.month,
                                       st.change[1]))

\* last_profit = profit
SaveLastProfit(st) ==
    IF st.error # NoError THEN st
    ELSE [st EXCEPT !.last_profit = Some(st.profit)]

\* one iteration of "for month, profit in budget_data"
BudgetLoopBody(st, row) ==
    IF st.error # NoError THEN st
    ELSE SaveLastProfit(CompareDecrease(CompareIncrease(
             AddChange(ComputeChange(AddProfit(ConvertProfit(st, row)))))))

RECURSIVE BudgetLoop(_, _)
BudgetLoop(st, rows) ==
    IF rows = <<>> \/ st.error # NoError THEN st
    ELSE BudgetLoop(BudgetLoopBody(st, Head(rows)), Tail(rows))

NoBudgetAnalysis ==
    [total_months |-> 0, total |-> ZeroCents, average_change |-> ZeroCents,
     greatest_increase |-> None, greatest_decrease |-> None]

\* analysis = dict(...), once total_change/total_changes is computed
ConsolidateAnalysis(total_months, st, average_change) ==
    IF ~average_change.ok
    THEN [ok |-> FALSE, error |-> average_change.error,
          value |-> NoBudgetAnalysis]
    ELSE [ok |-> TRUE, error |-> NoError,
          value |-> [total_months |-> total_months,
                     total |-> st.total_profit,
                     average_change |-> average_change.value,
                     greatest_increase |-> st.greatest_increase,
                     greatest_decrease |-> st.greatest_decrease]]

\* what follows the loop, st being the locals it leaves
AfterBudgetLoop(total_months, st) ==
    IF st.error # NoError
    THEN [ok |-> FALSE, error |-> st.error, value |-> NoBudgetAnalysis]
    ELSE ConsolidateAnalysis(
             total_months, st,
             DecimalDivide(st.total_change, TotalChanges(total_months)))

analyze_budget_data(budget_data) ==
    AfterBudgetLoop(Len(budget_data), BudgetLoop(BudgetLoopInit, budget_data))

FinancialAnalysisTitle ==
    <<"F", "i", "n", "a", "n", "c", "i", "a", "l", " ",
      "A", "n", "a", "l", "y", "s", "i", "s">>

BudgetFieldNames ==
    << <<"T", "o", "t", "a", "l", " ", "M", "o", "n", "t", "h", "s">>,
       <<"T", "o", "t", "a", "l">>,
       <<"A", "v", "e", "r", "a", "g", "e", " ", "C", "h", "a", "n", "g", "e">>,
       <<"G", "r", "e", "a", "t", "e", "s", "t", " ",
         "I", "n", "c", "r", "e", "a", "s", "e", " ", "i", "n", " ",
         "P", "r", "o", "f", "i", "t", "s">>,
       <<"G", "r", "e", "a", "t", "e", "s", "t", " ",
         "D", "e", "c", "r", "e", "a", "s", "e", " ", "i", "n", " ",
         "P", "r", "o", "f", "i", "t", "s">> >>

BudgetBarWidth == 28

\* f"${d}" of a rounded amount
Dollars(d) == <<"$">> \o DecimalStr(d)

\* f"{month} ({profit})"
MonthAndProfit(month, profit) == month \o <<" ", "(">> \o profit \o <<")">>

\* the lines of the budget report, before the join; values holds the five
\* formatted field values
PyBank_report_lines(values) ==
    <<FinancialAnalysisTitle, Repeat("-", BudgetBarWidth)>>
    \o [i \in 1..5 |-> BudgetFieldNames[i] \o <<":", " ">> \o values[i]]

\* an exception raised by format_analysis_report
FormatRaised(e) == [ok |-> FALSE, error |-> e, value |-> <<>>]

\* format_analysis_report from decrease_profit = f"${round(...)}" on
FormatDecrease(a, total, average_change, increase_profit, r) ==
    IF ~r.ok THEN FormatRaised(r.error)
    ELSE [ok |-> TRUE, error |-> NoError,
          value |-> Join(NewLine, PyBank_report_lines(
              <<NatToStr(a.total_months), total, average_change,
                MonthAndProfit(a.greatest_increase[1][1], increase_profit),
                MonthAndProfit(a.greatest_decrease[1][1],
                               Dollars(r.value))>>))]

\* format_analysis_report from increase_profit = f"${round(...)}" on
FormatIncrease(a, total, average_change, r) ==
    IF ~r.ok THEN FormatRaised(r.error)
    ELSE FormatDecrease(a, total, average_change, Dollars(r.value),
                        DecimalRound(a.greatest_decrease[1][2], 0))

\* format_analysis_report from the unpacking of the two extrema on: None
\* cannot be unpacked
FormatExtrema(a, total, r) ==
    IF ~r.ok THEN FormatRaised(r.error)
    ELSE IF a.greatest_increase = None \/ a.greatest_decrease = None
    THEN FormatRaised(Error("TypeError", "none"))
    ELSE FormatIncrease(a, total, Dollars(r.value),
                        DecimalRound(a.greatest_increase[1][2], 0))

\* format_analysis_report from average_change = f"${round(...)}" on
FormatAverage(a, r) ==
    IF ~r.ok THEN FormatRaised(r.error)
    ELSE FormatExtrema(a, Dollars(r.value), DecimalRound(a.average_change, 2))

\* format_analysis_report: the roundings and the unpacking of the two
\* extrema run in the order of the source, and the first that raises ends it
PyBank_format_analysis_report(a) == FormatAverage(a, DecimalRound(a.total, 0))

\* ================================================================== PyPoll
\* A dict is the sequence of its <<key, value>> items in insertion order.
DictKeys(d) == {d[i][1] : i \in 1..Len(d)}

\* variant: every ballot adds an item, known candidate or not
IncrementVotesMutant(candidate_votes, candidate) ==
    Append(candidate_votes, <<candidate, 1>>)

\* candidate_votes[candidate] += 1   on a defaultdict(int)
IncrementVotes(candidate_votes, candidate) ==
    IF candidate \in DictKeys(candidate_votes)
    THEN [i \in 1..Len(candidate_votes) |->
             IF candidate_votes[i][1] = candidate
             THEN <<candidate, candidate_votes[i][2] + 1>>
             ELSE candidate_votes[i]]
    ELSE Append(candidate_votes, <<candidate, 1>>)

RECURSIVE CountVotes(_, _)
\* for row in election_data: ballot_id, county, candidate = row; ...
CountVotes(st, rows) ==
    IF rows = <<>> \/ st.error # NoError THEN st
    ELSE IF Len(Head(rows)) # 3
    THEN [st EXCEPT !.error = Error("ValueError", "none")]
    ELSE CountVotes([st EXCEPT !.candidate_votes =
                        IncrementVotes(st.candidate_votes, Head(rows)[3])],
                    Tail(rows))

\* variant: non-strict comparison, the latest of equal counts wins
UpdateWinnerMutant(winner, candidate, votes) ==
    IF winner = None \/ votes >= winner[1][2]
    THEN Some(<<candidate, votes>>)
    ELSE winner

\* if winner is None or votes > winner[1]: winner = (candidate, votes)
UpdateWinner(winner, candidate, votes) ==
    IF winner = None \/ votes > winner[1][2]
    THEN Some(<<candidate, votes>>)
    ELSE winner

RECURSIVE DetermineWinner(_, _)
\* for candidate, votes in candidate_votes.items(): ...
DetermineWinner(winner, items) ==
    IF items = <<>> THEN winner
    ELSE DetermineWinner(UpdateWinner(winner, Head(items)[1], Head(items)[2]),
                         Tail(items))

\* significant binary digits of a float
FloatPrecision == 53

\* The binary digits of r/den are produced one at a time after sig
\* significant digits of the quotient, up to the FloatPrecision digits a
\* float keeps; the digit after them rounds to nearest, ties to even.  odd
\* tells whether the last digit kept so far is a one.  above, once done, is 0
\* when the float is the quotient, 1 when it is above it, -1 when below.
FloatStep(den, s) ==
    IF s.done THEN s
    ELSE IF s.r = 0 THEN [s EXCEPT !.done = TRUE, !.above = 0]
    ELSE LET bit == IF 2 * s.r >= den THEN 1 ELSE 0
             rest == 2 * s.r - bit * den
         IN  IF s.sig < FloatPrecision
             THEN [r |-> rest,
                   sig |-> IF s.sig = 0 /\ bit = 0 THEN 0 ELSE s.sig + 1,
                   odd |-> bit = 1, done |-> FALSE, above |-> 0]
             ELSE [s EXCEPT !.done = TRUE,
                            !.above = IF bit = 0 THEN -1
                                      ELSE IF rest > 0 \/ s.odd THEN 1
                                      ELSE -1]

RECURSIVE FloatSteps(_, _, _)
\* k steps, half of them after the other half
FloatSteps(den, s, k) ==
    IF k = 0 \/ s.done THEN s
    ELSE IF k = 1 THEN FloatStep(den, s)
    ELSE FloatSteps(den, FloatSteps(den, s, k \div 2), k - k \div 2)

\* the rounding of the quotient to a float: at most 31 zero digits come
\* before the first significant one, and one digit after the last decides
FloatRounding(r, den, sig, odd) ==
    FloatSteps(den, [r |-> r, sig |-> sig, odd |-> odd, done |-> FALSE,
                     above |-> 0],
               FloatPrecision + 32).above

\* n.bit_length()
BitLength(n) ==
    IF n = 0 THEN 0 ELSE CHOOSE b \in 1..31 : n \div (2 ^ (b - 1)) = 1

\* votes*100/total_votes: the float nearest to the quotient num/den; above
\* tells on which side of the quotient the float lies
Percentage(votes, total_votes) ==
    LET num == votes * 100
    IN  [num |-> num, den |-> total_votes,
         above |-> FloatRounding(num % total_votes, total_votes,
                                 BitLength(num \div total_votes),
                                 (num \div total_votes) % 2 = 1)]

NoElectionAnalysis ==
    [total_votes |-> 0, candidate_votes |-> <<>>, winner |-> <<>>]

analyze_election_data(election_data) ==
    LET total_votes == Len(election_data)
        st == CountVotes([candidate_votes |-> <<>>, error |-> NoError],
                         election_data)
        winner == DetermineWinner(None, st.candidate_votes)
    IN  IF st.error # NoError
        THEN [ok |-> FALSE, error |-> st.error, value |-> NoElectionAnalysis]
        ELSE IF winner = None
        THEN [ok |-> FALSE, error |-> Error("TypeError", "none"),
              value |-> NoElectionAnalysis]
        ELSE [ok |-> TRUE, error |-> NoError,
              value |-> [total_votes |-> total_votes,
                         candidate_votes |->
                             [i \in 1..Len(st.candidate_votes) |->
                                 <<st.candidate_votes[i][1],
                                   st.candidate_votes[i][2],
                                   Percentage(st.candidate_votes[i][2],
                                              total_votes)>>],
                         winner |-> winner[1][1]]]

\* f"{percentage:2.3f}": the float rounded to three fraction digits.  The
\* digits are those of the quotient num/den, by long division; the float is
\* so near the quotient (within 2^-46 for a percentage) that it rounds as the
\* quotient does unless the quotient lies half way between two results, and
\* there the side of the float decides, or the even digit when the float is
\* the quotient.
FormatPercentage(p) ==
    LET r0 == p.num % p.den
        d1 == (r0 * 10) \div p.den
        r1 == (r0 * 10) % p.den
        d2 == (r1 * 10) \div p.den
        r2 == (r1 * 10) % p.den
        d3 == (r2 * 10) \div p.den
        r3 == (r2 * 10) % p.den
        q == (p.num \div p.den) * 1000 + d1 * 100 + d2 * 10 + d3
        up == \/ 2 * r3 > p.den
              \/ 2 * r3 = p.den /\ p.above = 1
              \/ 2 * r3 = p.den /\ p.above = 0 /\ q % 2 = 1
        v == IF up THEN q + 1 ELSE q
    IN  NatToStr(v \div 1000)
        \o <<".", Digits[((v \div 100) % 10) + 1],
             Digits[((v \div 10) % 10) + 1], Digits[(v % 10) + 1]>>

ElectionResultsTitle ==
    <<"E", "l", "e", "c", "t", "i", "o", "n", " ",
      "R", "e", "s", "u", "l", "t", "s">>

ElectionBarWidth == 25

TotalVotesLine(total_votes) ==
    <<"T", "o", "t", "a", "l", " ", "V", "o", "t", "e", "s", ":", " ">>
    \o NatToStr(total_votes)

CandidateLine(c) ==
    c[1] \o <<":", " ">> \o FormatPercentage(c[3]) \o <<"%", " ", "(">>
    \o NatToStr(c[2]) \o <<")">>

WinnerLine(winner) == <<"W", "i", "n", "n", "e", "r", ":", " ">> \o winner

\* variant: no rule between the total and the candidates
AssembleReportLinesMutant(title, bar, total_votes, candidates, winner) ==
    <<title, bar, total_votes>> \o candidates \o <<bar, winner, bar>>

\* report_lines = [title, horizontal_bar, total_votes, horizontal_bar,
\*                 *candidates, horizontal_bar, winner, horizontal_bar]
AssembleReportLines(title, bar, total_votes, candidates, winner) ==
    <<title, bar, total_votes, bar>> \o candidates \o <<bar, winner, bar>>

PyPoll_report_lines(a) ==
    AssembleReportLines(
        ElectionResultsTitle,
        Repeat("-", ElectionBarWidth),
        TotalVotesLine(a.total_votes),
        [i \in 1..Len(a.candidate_votes) |-> CandidateLine(a.candidate_votes[i])],
        WinnerLine(a.winner))

PyPoll_format_analysis_report(a) ==
    [ok |-> TRUE, error |-> NoError,
     value |-> Join(NewLine, PyPoll_report_lines(a))]

\* =========================================================== input domains
Jan == <<"J", "a", "n">>
Feb == <<"F", "e", "b">>
Labels == {Jan, Feb}

\* the amount fields of the model: three that parse and one that does not
AmountStrings == {<<"5">>, <<"-", "3">>, <<"1", "2">>, <<"x">>}

\* a row of a budget csv file: two fields, or a row of the wrong arity
BudgetRows == {<<l, a>> : l \in Labels, a \in AmountStrings} \cup {<<Jan>>}

Mar == <<"M", "a", "r">>

\* an integer amount of 29 digits
Big == <<"1">> \o Repeat("0", 28)

\* amount fields that Decimal() accepts besides the short integers: a number
\* longer than the context's precision, a fraction, a negative zero, a NaN
WideAmountStrings ==
    {Big, <<"5">>, <<"-", "3">>, <<"1", ".", "5">>, <<"-", "0">>,
     <<"N", "a", "N">>}

WideRows == {<<Mar, a>> : a \in WideAmountStrings}

Li == <<"L", "i">>
Stockham == <<"S", "t", "o", "c", "k", "h", "a", "m">>
Diana == <<"D">>
Candidates == {Li, Stockham, Diana}

BallotId == <<"1">>
County == <<"A">>

\* a row of an election csv file: three fields, or a row of the wrong arity
ElectionRows == {<<BallotId, County, c>> : c \in Candidates}
                \cup {<<BallotId, County>>}

SeqsUpTo(S, n) == UNION {[1..k -> S] : k \in 0..n}

BudgetHeader == <<<<"D", "a", "t", "e">>, <<"P", "/", "L">>>>
ElectionHeader == <<BallotId, County, <<"C">>>>

Header(s) == IF s = "PyBank" THEN BudgetHeader ELSE ElectionHeader

\* the data rows of a csv file: for the budget, rows of short amounts under
\* either label, or rows of the wider amounts
Datasets(s) ==
    IF s = "PyBank"
    THEN SeqsUpTo(BudgetRows, MaxRows) \cup SeqsUpTo(WideRows, MaxRows)
    ELSE SeqsUpTo(ElectionRows, MaxBallots)

\* A csv file is missing, empty, or a header row followed by data rows.
MissingFile == [exists |-> FALSE, rows |-> <<>>]
InputFiles(s) ==
    {MissingFile, [exists |-> TRUE, rows |-> <<>>]}
    \cup {[exists |-> TRUE, rows |-> <<Header(s)>> \o d] : d \in Datasets(s)}

RaceRows(s) == IF s = "PyBank"
               THEN {<<Jan, <<"5">>>>, <<Feb, <<"1", "2">>>>}
               ELSE {<<BallotId, County, Li>>, <<BallotId, County, Stockham>>}

RaceInputFiles(s) ==
    {[exists |-> TRUE, rows |-> <<Header(s)>> \o d] :
        d \in SeqsUpTo(RaceRows(s), RaceMaxRows)}

OldReport == <<"o", "l", "d">>

\* ============================================================ state machine
Instances == {1, 2}
Scripts == {"PyBank", "PyPoll"}
Stages == <<"Loader", "Analyzer", "Formatter", "Reporter">>

VARIABLES
    script,      \* which of the two scripts the instances run
    csv,         \* csv[p]: the input file as instance p finds it
    outDirOk,    \* the directory of the report file exists and is writable
    stdoutOk,    \* writing to standard output succeeds
    pc,          \* pc[p]: position of instance p in main()
    data,        \* budget_data / election_data
    analysis,    \* analysis
    report,      \* report
    stdoutBuffered, \* standard output is buffered (python without -u)
    buffer,      \* text written to report_file and not yet flushed
    offset,      \* offset[p]: file position of report_file
    outbuf,      \* outbuf[p]: text written to sys.stdout and not yet flushed
    status,      \* exit status of the process, None while it runs
    exit_code,   \* exit_code of main()
    returned,    \* value main() returned, None before it returns
    started,     \* stages called by main(), in call order
    raised,      \* the stage whose call raised, "none" otherwise
    error,       \* the exception raised, NoError otherwise
    file,        \* the report file on disk
    stdout,      \* stdout[p]: the text that reached standard output
    fileEvents   \* opens and writes of the report file, in order

vars == <<script, csv, outDirOk, stdoutOk, stdoutBuffered, pc, data, analysis,
          report, buffer, offset, outbuf, status, exit_code, returned,
          started, raised, error, file, stdout, fileEvents>>

env == <<script, csv, outDirOk, stdoutOk, stdoutBuffered>>

analyze(s, d) == IF s = "PyBank" THEN analyze_budget_data(d)
                 ELSE analyze_election_data(d)

format_analysis_report(s, a) ==
    IF s = "PyBank" THEN PyBank_format_analysis_report(a)
    ELSE PyPoll_format_analysis_report(a)

NoAnalysis(s) == IF s = "PyBank" THEN NoBudgetAnalysis ELSE NoElectionAnalysis

\* variant: the stages are not guarded, the next statement runs regardless
ContinueMutant(ok, next) == next

\* the try block: a stage that returns is followed by the next statement, a
\* stage that raises by the except clause
Continue(ok, next) == IF ok THEN next ELSE "except"

\* variant: the except clause reports success
HandlerExitCodeMutant == success

\* exit_code = failure   in the except clause
HandlerExitCode == failure

\* chr(0), which fills the gap when a write starts beyond the end of a file;
\* a string has no notation for it, and it is written as a token of its own
NUL == "\\0"

\* variant: the file is opened for appending
WriteAtMutant(content, pos, buf) == content \o buf

\* a write of buf at the offset pos of a file holding content; a write of
\* nothing is no write
WriteAt(content, pos, buf) ==
    IF buf = <<>> THEN content
    ELSE [i \in 1..Larger(Len(content), pos + Len(buf)) |->
             IF i > pos /\ i <= pos + Len(buf) THEN buf[i - pos]
             ELSE IF i <= Len(content) THEN content[i]
             ELSE NUL]

\* stream.write(s) with pending the text not yet flushed: the text that stays
\* pending, and the text the stream hands to its device.  A buffered stream
\* hands on what it holds once that is ChunkSize characters, which is more
\* than the BufferSize the layer under it would keep; a stream that is not
\* buffered hands on every write.
WritePending(pending, s, buffered) ==
    IF buffered /\ Len(pending) + Len(s) < ChunkSize THEN pending \o s
    ELSE <<>>

WriteFlushed(pending, s, buffered) ==
    IF buffered /\ Len(pending) + Len(s) < ChunkSize THEN <<>>
    ELSE pending \o s

\* print(text, file=stream): stream.write(text), then stream.write("\n")
PrintPending(pending, text, buffered) ==
    WritePending(WritePending(pending, text, buffered), NewLine, buffered)

PrintFlushed(pending, text, buffered) ==
    WriteFlushed(pending, text, buffered)
    \o WriteFlushed(WritePending(pending, text, buffered), NewLine, buffered)

\* exit(exit_code): the status of the process is the code modulo 256, unless
\* the flush of sys.stdout at exit fails.  Text that is more than the buffer
\* under sys.stdout keeps was dropped by the failed flush that follows the
\* run of the script, and the flush at exit finds nothing to write.
ExitStatus(code, pending, ok) ==
    IF ~ok /\ pending # <<>> /\ Len(pending) <= BufferSize
    THEN FlushFailureStatus
    ELSE code % 256

\* the report file before the run: an earlier report, or no file when its
\* directory is missing
InitialFile == IF outDirOk THEN [exists |-> TRUE, content |-> OldReport]
               ELSE [exists |-> FALSE, content |-> <<>>]

InitCommon(active) ==
    /\ pc = [p \in Instances |-> IF p \in active THEN "import" ELSE "absent"]
    /\ data = [p \in Instances |-> <<>>]
    /\ analysis = [p \in Instances |-> NoAnalysis(script)]
    /\ report = [p \in Instances |-> <<>>]
    /\ buffer = [p \in Instances |-> <<>>]
    /\ offset = [p \in Instances |-> 0]
    /\ outbuf = [p \in Instances |-> <<>>]
    /\ status = [p \in Instances |-> None]
    /\ exit_code = [p \in Instances |-> failure]
    /\ returned = [p \in Instances |-> None]
    /\ started = [p \in Instances |-> <<>>]
    /\ raised = [p \in Instances |-> "none"]
    /\ error = [p \in Instances |-> NoError]
    /\ file = InitialFile
    /\ stdout = [p \in Instances |-> <<>>]
    /\ fileEvents = <<>>

\* one run of one script
Init ==
    /\ script \in Scripts
    /\ csv \in [Instances -> InputFiles(script)]
    /\ csv[2] = MissingFile
    /\ outDirOk \in BOOLEAN
    /\ stdoutOk \in BOOLEAN
    /\ stdoutBuffered \in BOOLEAN
    /\ InitCommon({1})

\* two runs of the same script at once, each finding the csv file as it is
\* when the run reads it
InitRace ==
    /\ script \in Scripts
    /\ csv \in [Instances -> RaceInputFiles(script)]
    /\ outDirOk = TRUE
    /\ stdoutOk = TRUE
    /\ stdoutBuffered = TRUE
    /\ InitCommon({1, 2})

Step(p, stage, ok, err, next) ==
    /\ pc' = [pc EXCEPT ![p] = Continue(ok, next)]
    /\ raised' = [raised EXCEPT ![p] = IF ok THEN @ ELSE stage]
    /\ error' = [error EXCEPT ![p] = IF ok THEN @ ELSE err]

\* budget_data = import_budget_data()
ImportData(p) ==
    /\ pc[p] = "import"
    /\ started' = [started EXCEPT ![p] = Append(@, "Loader")]
    /\ LET ok == csv[p].exists /\ csv[p].rows # <<>>
           err == IF csv[p].exists THEN Error("StopIteration", "none")
                  ELSE Error("FileNotFoundError", "none")
       IN  /\ Step(p, "Loader", ok, err, "analyze")
           /\ data' = [data EXCEPT ![p] = IF ok THEN Tail(csv[p].rows) ELSE @]
    /\ UNCHANGED <<env, analysis, report, buffer, offset, outbuf, status,
                   exit_code, returned, file, stdout, fileEvents>>

\* analysis = analyze_budget_data(budget_data)
AnalyzeData(p) ==
    /\ pc[p] = "analyze"
    /\ started' = [started EXCEPT ![p] = Append(@, "Analyzer")]
    /\ LET r == analyze(script, data[p])
       IN  /\ Step(p, "Analyzer", r.ok, r.error, "format")
           /\ analysis' = [analysis EXCEPT ![p] = r.value]
    /\ UNCHANGED <<env, data, report, buffer, offset, outbuf, status,
                   exit_code, returned, file, stdout, fileEvents>>

\* report = format_analysis_report(analysis)
FormatReport(p) ==
    /\ pc[p] = "format"
    /\ started' = [started EXCEPT ![p] = Append(@, "Formatter")]
    /\ LET r == format_analysis_report(script, analysis[p])
       IN  /\ Step(p, "Formatter", r.ok, r.error, "export")
           /\ report' = [report EXCEPT ![p] = r.value]
    /\ UNCHANGED <<env, data, analysis, buffer, offset, outbuf, status,
                   exit_code, returned, file, stdout, fileEvents>>

\* export_and_print_report: open(report_filename, "w", encoding="utf-8")
\* truncates the file, or fails when its directory is missing
ExportOpen(p) ==
    /\ pc[p] = "export"
    /\ started' = [started EXCEPT ![p] = Append(@, "Reporter")]
    /\ Step(p, "Reporter", outDirOk, Error("FileNotFoundError", "none"),
            "print_file")
    /\ file' = IF outDirOk THEN [exists |-> TRUE, content |-> <<>>] ELSE file
    /\ fileEvents' = IF outDirOk THEN Append(fileEvents, <<"open", p>>)
                     ELSE fileEvents
    /\ UNCHANGED <<env, data, analysis, report, buffer, offset, outbuf,
                   status, exit_code, returned, stdout>>

\* print(report, file=report_file): the text stays pending in report_file
\* unless it fills the chunk of the stream, which then writes it at the
\* offset of report_file
PrintToFile(p) ==
    /\ pc[p] = "print_file"
    /\ LET flushed == PrintFlushed(buffer[p], report[p], TRUE)
       IN  /\ file' = [exists |-> TRUE,
                       content |-> WriteAt(file.content, offset[p], flushed)]
           /\ offset' = [offset EXCEPT ![p] = @ + Len(flushed)]
           /\ fileEvents' = IF flushed = <<>> THEN fileEvents
                            ELSE Append(fileEvents, <<"write", p>>)
    /\ buffer' = [buffer EXCEPT ![p] = PrintPending(@, report[p], TRUE)]
    /\ pc' = [pc EXCEPT ![p] = "print_stdout"]
    /\ UNCHANGED <<env, data, analysis, report, outbuf, status, exit_code,
                   returned, started, raised, error, stdout>>

\* print(report, file=sys.stdout): the text stays pending in sys.stdout when
\* the stream is buffered and the text does not fill its chunk; otherwise it
\* is written, and a write that fails raises OSError and loses the text
PrintToStdout(p) ==
    /\ pc[p] = "print_stdout"
    /\ LET flushed == PrintFlushed(outbuf[p], report[p], stdoutBuffered)
           fails == ~stdoutOk /\ flushed # <<>>
       IN  /\ stdout' = [stdout EXCEPT ![p] =
                            IF stdoutOk THEN @ \o flushed ELSE @]
           /\ outbuf' = [outbuf EXCEPT ![p] =
                            IF fails THEN <<>>
                            ELSE PrintPending(@, report[p], stdoutBuffered)]
           /\ raised' = [raised EXCEPT ![p] = IF fails THEN "Reporter" ELSE @]
           /\ error' = [error EXCEPT ![p] =
                           IF fails THEN Error("OSError", "none") ELSE @]
    /\ pc' = [pc EXCEPT ![p] = "close"]
    /\ UNCHANGED <<env, data, analysis, report, buffer, offset, status,
                   exit_code, returned, started, file, fileEvents>>

\* leaving the with block closes report_file, which writes its pending text
\* at the offset of report_file; then exit_code = success, or the pending
\* exception reaches the except clause
CloseFile(p) ==
    /\ pc[p] = "close"
    /\ file' = [exists |-> TRUE,
                content |-> WriteAt(file.content, offset[p], buffer[p])]
    /\ offset' = [offset EXCEPT ![p] = @ + Len(buffer[p])]
    /\ buffer' = [buffer EXCEPT ![p] = <<>>]
    /\ fileEvents' = IF buffer[p] = <<>> THEN fileEvents
                     ELSE Append(fileEvents, <<"write", p>>)
    /\ pc' = [pc EXCEPT ![p] = Continue(raised[p] = "none", "finally")]
    /\ exit_code' = [exit_code EXCEPT ![p] =
                        IF raised[p] = "none" THEN success ELSE @]
    /\ UNCHANGED <<env, data, analysis, report, outbuf, status, returned,
                   started, raised, error, stdout>>

\* except Exception as e: exit_code = failure
Except(p) ==
    /\ pc[p] = "except"
    /\ exit_code' = [exit_code EXCEPT ![p] = HandlerExitCode]
    /\ pc' = [pc EXCEPT ![p] = "finally"]
    /\ UNCHANGED <<env, data, analysis, report, buffer, offset, outbuf,
                   status, returned, started, raised, error, file, stdout,
                   fileEvents>>

\* finally: return exit_code
Finally(p) ==
    /\ pc[p] = "finally"
    /\ returned' = [returned EXCEPT ![p] = Some(exit_code[p])]
    /\ pc' = [pc EXCEPT ![p] = "exit"]
    /\ UNCHANGED <<env, data, analysis, report, buffer, offset, outbuf,
                   status, exit_code, started, raised, error, file, stdout,
                   fileEvents>>

\* exit(main()): the interpreter flushes sys.stdout and the process ends
Exit(p) ==
    /\ pc[p] = "exit"
    /\ stdout' = [stdout EXCEPT ![p] = IF stdoutOk THEN @ \o outbuf[p] ELSE @]
    /\ outbuf' = [outbuf EXCEPT ![p] = <<>>]
    /\ status' = [status EXCEPT ![p] =
                     Some(ExitStatus(returned[p][1], outbuf[p], stdoutOk))]
    /\ pc' = [pc EXCEPT ![p] = "done"]
    /\ UNCHANGED <<env, data, analysis, report, buffer, offset, exit_code,
                   returned, started, raised, error, file, fileEvents>>

main(p) ==
    \/ ImportData(p)
    \/ AnalyzeData(p)
    \/ FormatReport(p)
    \/ ExportOpen(p)
    \/ PrintToFile(p)
    \/ PrintToStdout(p)
    \/ CloseFile(p)
    \/ Except(p)
    \/ Finally(p)
    \/ Exit(p)

Next == \E p \in Instances : main(p)

Spec == Init /\ [][Next]_vars

SpecRace == InitRace /\ [][Next]_vars


\* ================================================================== claims
\* ------------------------------------------------------- shared vocabulary
AnalyzerCalled(p) == Len(started[p]) >= 2
AnalyzerReturned(p) == AnalyzerCalled(p) /\ raised[p] # "Analyzer"
FormatterReturned(p) == Len(started[p]) >= 3 /\ raised[p] # "Formatter"

\* the amount field is a number: Decimal() reads it and it is neither an
\* infinity nor a NaN
IsNumber(s) == ParseDecimal(s).ok /\ IsFinite(ParseDecimal(s).value)

WellFormedBudget(d) ==
    \A i \in 1..Len(d) : Len(d[i]) = 2 /\ IsNumber(d[i][2])

WellFormedElection(d) == \A i \in 1..Len(d) : Len(d[i]) = 3

\* the parsed amount of row i, exact whatever its number of digits
Amount(d, i) == ParseDecimal(d[i][2]).value

\* Arithmetic on numbers without rounding: the coefficient of x written with
\* the exponent exp <= x.exp, the sum, the difference, equality and order.
Aligned(x, exp) == Canon(x.int \o Zeros(x.exp - exp))

ExactAdd(x, y) ==
    LET exp == Smaller(x.exp, y.exp)
        a == Aligned(x, exp)
        b == Aligned(y, exp)
    IN  IF x.sign = y.sign THEN DecFromTriple(x.sign, AddCoeff(a, b), exp)
        ELSE IF CmpCoeff(a, b) = 0 THEN DecFromTriple(0, <<0>>, exp)
        ELSE IF CmpCoeff(a, b) > 0
        THEN DecFromTriple(x.sign, SubCoeff(a, b), exp)
        ELSE DecFromTriple(y.sign, SubCoeff(b, a), exp)

ExactSub(x, y) == ExactAdd(x, CopyNegate(y))

SameNumber(x, y) == IsFinite(x) /\ IsFinite(y) /\ IsZero(ExactSub(x, y))

ExactLess(x, y) == ExactSub(x, y).sign = 1 /\ ~IsZero(ExactSub(x, y))

RECURSIVE Times(_, _)
\* x * m for an int m >= 0
Times(x, m) ==
    IF m = 0 THEN DecFromTriple(0, <<0>>, x.exp)
    ELSE ExactAdd(Times(x, m - 1), x)

\* x is m times a number of the same exponent
Divisible(x, m) == DivCoeff(x.int, m).rem = 0

RECURSIVE SumAmounts(_, _)
\* the exact sum of the amounts of the rows 1..k
SumAmounts(d, k) ==
    IF k = 0 THEN DecimalFromInt(0)
    ELSE ExactAdd(SumAmounts(d, k - 1), Amount(d, k))

\* amount_i - amount_(i-1), exactly
Change(d, i) == ExactSub(Amount(d, i), Amount(d, i - 1))

RECURSIVE SumChanges(_, _)
\* the exact sum of Change(d, i) for i in 2..k
SumChanges(d, k) ==
    IF k < 2 THEN DecimalFromInt(0)
    ELSE ExactAdd(SumChanges(d, k - 1), Change(d, k))

RowOrders(n) ==
    {f \in [1..n -> 1..n] : \A i, j \in 1..n : f[i] = f[j] => i = j}

Permute(d, f) == [i \in 1..Len(d) |-> d[f[i]]]

\* C1: for every non-empty budget dataset whose amounts all parse, the
\* analyzer returns a summary whose total is the exact sum of the parsed
\* amounts, and the total is the same for every permutation of the rows.
\* The datasets of one row, for which the analyzer returns no summary (C7),
\* are left out: the statement fails without them.
C1_TotalExact ==
    (/\ script = "PyBank"
     /\ AnalyzerCalled(1)
     /\ Len(data[1]) >= 2
     /\ WellFormedBudget(data[1]))
    => /\ AnalyzerReturned(1)
       /\ SameNumber(analysis[1].total, SumAmounts(data[1], Len(data[1])))
       /\ \A f \in RowOrders(Len(data[1])) :
             LET r == analyze_budget_data(Permute(data[1], f))
             IN  r.ok /\ SameNumber(r.value.total, analysis[1].total)

\* the first row index, from 2 on, whose change is extremal
FirstMaxChange(d) ==
    CHOOSE i \in 2..Len(d) :
        /\ \A j \in 2..Len(d) : ~ExactLess(Change(d, i), Change(d, j))
        /\ \A j \in 2..(i - 1) : ExactLess(Change(d, j), Change(d, i))

FirstMinChange(d) ==
    CHOOSE i \in 2..Len(d) :
        /\ \A j \in 2..Len(d) : ~ExactLess(Change(d, j), Change(d, i))
        /\ \A j \in 2..(i - 1) : ExactLess(Change(d, i), Change(d, j))

\* the extremum the analyzer returned is (label_i, amount_i - amount_(i-1))
IsChangeOfRow(extremum, d, i) ==
    /\ extremum # None
    /\ extremum[1][1] = d[i][1]
    /\ SameNumber(extremum[1][2], Change(d, i))

\* C2: for every budget dataset of at least two rows, greatest_increase is
\* (label_i, amount_i - amount_(i-1)) of the earliest row, from the second
\* on, whose change is the maximum, and greatest_decrease that of the
\* earliest row whose change is the minimum; the first row never supplies an
\* extremum.
C2_GreatestChanges ==
    (/\ script = "PyBank"
     /\ AnalyzerCalled(1)
     /\ Len(data[1]) >= 2
     /\ WellFormedBudget(data[1]))
    => LET d == data[1]
       IN  /\ AnalyzerReturned(1)
           /\ IsChangeOfRow(analysis[1].greatest_increase, d, FirstMaxChange(d))
           /\ IsChangeOfRow(analysis[1].greatest_decrease, d, FirstMinChange(d))

\* C3: for every budget dataset of at least two rows, average_change times
\* (month_count - 1) equals the sum of the changes amount_i - amount_(i-1),
\* exactly, whenever that sum is divisible by month_count - 1.
C3_AverageTimesCount ==
    (/\ script = "PyBank"
     /\ AnalyzerCalled(1)
     /\ Len(data[1]) >= 2
     /\ WellFormedBudget(data[1]))
    => LET n == Len(data[1])
           changes == SumChanges(data[1], n)
       IN  /\ AnalyzerReturned(1)
           /\ analysis[1].total_months = n
           /\ Divisible(changes, n - 1)
              => SameNumber(Times(analysis[1].average_change, n - 1), changes)

Candidate(d, i) == d[i][3]

FirstAppearance(d, c) ==
    CHOOSE i \in 1..Len(d) :
        Candidate(d, i) = c /\ \A j \in 1..(i - 1) : Candidate(d, j) # c

RECURSIVE SumVotes(_, _)
SumVotes(cv, k) == IF k = 0 THEN 0 ELSE SumVotes(cv, k - 1) + cv[k][2]

\* C4: for every election dataset of at least one row, candidate_votes lists
\* each distinct candidate exactly once, in order of first appearance, with
\* the number of rows naming the candidate, and the counts sum to total_votes,
\* the number of rows.
C4_CandidateVotes ==
    (/\ script = "PyPoll"
     /\ AnalyzerCalled(1)
     /\ Len(data[1]) >= 1
     /\ WellFormedElection(data[1]))
    => LET d == data[1]
           cv == analysis[1].candidate_votes
       IN  /\ AnalyzerReturned(1)
           /\ {cv[i][1] : i \in 1..Len(cv)}
                 = {Candidate(d, k) : k \in 1..Len(d)}
           /\ \A i, j \in 1..Len(cv) :
                 i < j => FirstAppearance(d, cv[i][1])
                            < FirstAppearance(d, cv[j][1])
           /\ \A i \in 1..Len(cv) :
                 cv[i][2] = Cardinality({k \in 1..Len(d) :
                                            Candidate(d, k) = cv[i][1]})
           /\ analysis[1].total_votes = Len(d)
           /\ SumVotes(cv, Len(cv)) = analysis[1].total_votes

C4_Witness ==
    /\ script = "PyPoll"
    /\ AnalyzerReturned(1)
    /\ Len(data[1]) = 4
    /\ WellFormedElection(data[1])
    /\ analysis[1].candidate_votes =
          << <<Stockham, 2, Percentage(2, 4)>>, <<Li, 1, Percentage(1, 4)>>,
             <<Diana, 1, Percentage(1, 4)>> >>
    /\ Candidate(data[1], 4) = Stockham

Votes(d, c) == Cardinality({k \in 1..Len(d) : Candidate(d, k) = c})

\* C5: for every election dataset of at least one row, no candidate has more
\* votes than the winner, and of the candidates sharing the maximum the
\* winner is the one that appears first in the dataset.
C5_Winner ==
    (/\ script = "PyPoll"
     /\ AnalyzerCalled(1)
     /\ Len(data[1]) >= 1
     /\ WellFormedElection(data[1]))
    => LET d == data[1]
           w == analysis[1].winner
           names == {Candidate(d, k) : k \in 1..Len(d)}
       IN  /\ AnalyzerReturned(1)
           /\ w \in names
           /\ \A c \in names : Votes(d, c) <= Votes(d, w)
           /\ \A c \in names :
                 Votes(d, c) = Votes(d, w)
                 => FirstAppearance(d, w) <= FirstAppearance(d, c)

C5_Witness ==
    /\ script = "PyPoll"
    /\ AnalyzerReturned(1)
    /\ Len(data[1]) = 4
    /\ WellFormedElection(data[1])
    /\ Votes(data[1], Li) = 2
    /\ Votes(data[1], Stockham) = 2
    /\ FirstAppearance(data[1], Stockham) = 1
    /\ Candidate(data[1], 4) = Li
    /\ analysis[1].winner = Stockham

AllStagesCompleted(p) == started[p] = Stages /\ raised[p] = "none"

\* the positions of a run: each one but "done" has a next statement, none
\* stands for an exception that left main()
MainPositions ==
    {"import", "analyze", "format", "export", "print_file", "print_stdout",
     "close", "except", "finally", "exit", "done"}

\* main() has returned
MainReturned(p) == pc[p] \in {"exit", "done"}

\* C6: in both scripts main() returns and lets no exception out: it returns
\* 0 if and only if the four stages all completed without raising, and -1
\* when any stage raised, whatever the kind of error.
C6_ExitCode ==
    /\ pc[1] \in MainPositions
    /\ MainReturned(1) <=> returned[1] # None
    /\ MainReturned(1)
       => /\ returned[1] \in {Some(success), Some(failure)}
          /\ returned[1] = Some(success) <=> AllStagesCompleted(1)
          /\ raised[1] # "none" => returned[1] = Some(failure)

C6_Witness ==
    /\ pc[1] = "done"
    /\ raised[1] = "Analyzer"
    /\ error[1] = Error("InvalidOperation", "ConversionSyntax")
    /\ returned[1] = Some(failure)

\* C7 as stated: for every budget dataset of zero rows or one row the
\* analyzer returns no summary: computing average_change fails with a
\* division-by-zero error.
C7_AverageUndefinedUpToOneRow ==
    (/\ script = "PyBank"
     /\ AnalyzerCalled(1)
     /\ Len(data[1]) <= 1
     /\ WellFormedBudget(data[1]))
    => /\ raised[1] = "Analyzer"
       /\ error[1] \in {Error("InvalidOperation", "DivisionUndefined"),
                       Error("DivisionByZero", "DivisionByZero")}

RECURSIVE SplitLines(_)
\* text.split("\n")
SplitLines(text) ==
    IF \A i \in 1..Len(text) : text[i] # "\n" THEN <<text>>
    ELSE LET i == CHOOSE k \in 1..Len(text) :
                      text[k] = "\n" /\ \A j \in 1..(k - 1) : text[j] # "\n"
         IN  <<SubSeq(text, 1, i - 1)>>
             \o SplitLines(SubSeq(text, i + 1, Len(text)))

ElectionBar == Repeat("-", ElectionBarWidth)

CandidateLines(a) ==
    [i \in 1..Len(a.candidate_votes) |-> CandidateLine(a.candidate_votes[i])]

\* C8 (as amended): the election report is the title, a rule, the total-votes
\* line, a rule, one line per candidate in summary order, a rule, the winner
\* line and a trailing rule, and no other line: n + 7 lines for n candidates.
C8_ReportLinesWithRuleAfterTotal ==
    (script = "PyPoll" /\ FormatterReturned(1))
    => LET a == analysis[1]
           lines == SplitLines(report[1])
       IN  /\ lines = <<ElectionResultsTitle, ElectionBar,
                        TotalVotesLine(a.total_votes), ElectionBar>>
                      \o CandidateLines(a)
                      \o <<ElectionBar, WinnerLine(a.winner), ElectionBar>>
           /\ Len(lines) = Len(a.candidate_votes) + 7

\* C8 as stated: the candidate lines follow the total-votes line directly,
\* n + 6 lines for n candidates.
C8_ReportLinesAsStated ==
    (script = "PyPoll" /\ FormatterReturned(1))
    => LET a == analysis[1]
           lines == SplitLines(report[1])
       IN  /\ lines = <<ElectionResultsTitle, ElectionBar,
                        TotalVotesLine(a.total_votes)>>
                      \o CandidateLines(a)
                      \o <<ElectionBar, WinnerLine(a.winner), ElectionBar>>
           /\ Len(lines) = Len(a.candidate_votes) + 6

C8_Witness ==
    /\ script = "PyPoll"
    /\ FormatterReturned(1)
    /\ Len(analysis[1].candidate_votes) = 3
    /\ Len(SplitLines(report[1])) = 10

UntouchedFile == InitialFile

\* C9: the stages run at most once each and in the order Loader, Analyzer,
\* Formatter, Reporter; the Reporter starts only after the three earlier
\* stages completed without error, so when an earlier stage fails the report
\* file is neither opened, truncated nor modified and nothing of the report
\* reaches standard output.
C9_StagesInOrder ==
    /\ Len(started[1]) <= Len(Stages)
    /\ started[1] = SubSeq(Stages, 1, Len(started[1]))
    /\ Len(started[1]) = 4 => raised[1] \in {"none", "Reporter"}
    /\ (Len(started[1]) < 4 \/ raised[1] \in {"Loader", "Analyzer", "Formatter"})
       => /\ file = UntouchedFile
          /\ fileEvents = <<>>
          /\ buffer[1] = <<>>
          /\ offset[1] = 0
          /\ outbuf[1] = <<>>
          /\ stdout[1] = <<>>

C9_Witness ==
    /\ script = "PyBank"
    /\ pc[1] = "done"
    /\ Len(data[1]) = 1
    /\ WellFormedBudget(data[1])
    /\ raised[1] = "Analyzer"
    /\ started[1] = <<"Loader", "Analyzer">>
    /\ file = UntouchedFile

AllDone == \A p \in Instances : pc[p] = "done"

Output(p) == report[p] \o NewLine

EventIndex(e) == CHOOSE i \in 1..Len(fileEvents) : fileEvents[i] = e

Happened(e) == \E i \in 1..Len(fileEvents) : fileEvents[i] = e

LastWriter == fileEvents[Len(fileEvents)][2]

OtherInstance(p) == CHOOSE q \in Instances : q # p

\* the other instance wrote after the last writer had opened the file
WroteAfterOpenOf(o, w) ==
    /\ Happened(<<"write", o>>)
    /\ EventIndex(<<"write", o>>) > EventIndex(<<"open", w>>)

\* each report, with its newline, stays pending in report_file until the
\* close, which writes it in one piece
WrittenAtClose == \A p \in Instances : Len(Output(p)) < ChunkSize

\* C10 (as amended): when two instances have run against the same report
\* file, each with a report short enough to be written in one piece at the
\* close, the file starts with the complete report of the instance that
\* wrote last.  It is exactly that report unless the other instance wrote a
\* longer report after the last writer had opened (truncated) the file; then
\* the last writer's report is followed by the rest of the longer report.
C10_LastWriterOverwritesPrefix ==
    (AllDone /\ fileEvents # <<>> /\ WrittenAtClose)
    => LET w == LastWriter
           o == OtherInstance(w)
       IN  /\ fileEvents[Len(fileEvents)] = <<"write", w>>
           /\ file.content =
                 IF WroteAfterOpenOf(o, w)
                 THEN Output(w) \o SubSeq(Output(o), Len(Output(w)) + 1,
                                          Len(Output(o)))
                 ELSE Output(w)

\* C10 as stated: the file is exactly the report of the last writer.
C10_LastWriterWins ==
    (AllDone /\ fileEvents # <<>>) => file.content = Output(LastWriter)

C10_Witness ==
    /\ AllDone
    /\ fileEvents # <<>>
    /\ WrittenAtClose
    /\ WroteAfterOpenOf(OtherInstance(LastWriter), LastWriter)
    /\ Len(Output(OtherInstance(LastWriter))) > Len(Output(LastWriter))
    /\ file.content # Output(LastWriter)
    /\ SubSeq(file.content, 1, Len(Output(LastWriter))) = Output(LastWriter)

====
